---- MODULE Spec2Model ----
(***************************************************************************)
(* prime-agent: the AGENTS.md document model (src/agents_md.rs), the skill *)
(* store (src/skills_store.rs), the sync reconciler (src/sync.rs) and the  *)
(* delete commands (src/main.rs).                                          *)
(*                                                                         *)
(* A string is a sequence of characters.  The four fixed pieces of the     *)
(* section grammar are single characters of the alphabet, so starts_with,  *)
(* ends_with and equality on them are tests on the first or last element.  *)
(***************************************************************************)
EXTENDS Integers, Sequences, FiniteSets, TLC

VARIABLES
    agentsFile,       \* the document file: <<>> when absent, <<contents>> otherwise
    skills,           \* the skill store: name -> <<>> (no SKILL.md) or <<content>>
    pc,               \* position of the running command
    cmd,              \* the command that runs or ran last
    result,           \* "none", "ok" or "err": how the last command ended
    agents_doc,       \* run_sync's agents_doc (its segments)
    original_agents,  \* run_sync's original_agents: <<>> or <<contents>>
    all_names,        \* the names run_sync still has to process, ascending
    updated,          \* run_sync's updated flag
    prompts,          \* hunks shown by the running command
    fragWrites,       \* names save_skill/delete_skill wrote during the running command
    created,          \* names whose section was created from a fragment in this run
    conflicts,        \* names whose conflict was resolved in this run
    docWritten,       \* whether the running command wrote the document file
    second,           \* this sync directly follows a successful sync
    ops,              \* commands or calls made so far
    lastCall,         \* the last call made on the document model
    skill_content,    \* resolve_conflicts_interactive: left input
    agents_content,   \* resolve_conflicts_interactive: right input
    choices,          \* the answers read from stdin, one per hunk
    resolved,         \* resolve_conflicts_interactive: <<>> or <<result>>
    rendered          \* the last render() result: <<>> or <<text>>

vars == <<agentsFile, skills, pc, cmd, result, agents_doc, original_agents,
          all_names, updated, prompts, fragWrites, created, conflicts,
          docWritten, second, ops, lastCall, skill_content, agents_content,
          choices, resolved, rendered>>

----------------------------------------------------------------------------
(* Characters *)

LF == "\n"
CR == "\r"
SPC == " "
StartPrefix == "<!-- prime-agent(Start "
EndPrefix == "<!-- prime-agent(End "
MarkerSuffix == ") -->"
HeaderPrefix == "## "

\* char::is_whitespace on the alphabet (LF never occurs inside a line)
IsWhitespace(c) == c \in {SPC, CR, LF}

\* ch.is_ascii_alphanumeric() || ch == '-' || ch == '_'
IsNameChar(c) == c \in {"a", "b", "x", "y", "-", "_"}

\* byte order of the alphabet, as String's Ord compares
CharOrder == <<LF, CR, SPC, HeaderPrefix, MarkerSuffix, "-", EndPrefix,
               StartPrefix, "_", "a", "b", "x", "y">>

CharRank(c) == CHOOSE i \in 1..Len(CharOrder) : CharOrder[i] = c

RECURSIVE StrLess(_, _)
StrLess(s, t) ==
    IF t = <<>> THEN FALSE
    ELSE IF s = <<>> THEN TRUE
    ELSE IF Head(s) = Head(t) THEN StrLess(Tail(s), Tail(t))
    ELSE CharRank(Head(s)) < CharRank(Head(t))

----------------------------------------------------------------------------
(* str helpers *)

RECURSIVE TrimEnd(_)
TrimEnd(s) ==
    IF s = <<>> THEN <<>>
    ELSE IF IsWhitespace(s[Len(s)]) THEN TrimEnd(SubSeq(s, 1, Len(s) - 1))
    ELSE s

RECURSIVE TrimStart(_)
TrimStart(s) ==
    IF s = <<>> THEN <<>>
    ELSE IF IsWhitespace(Head(s)) THEN TrimStart(Tail(s))
    ELSE s

Trim(s) == TrimEnd(TrimStart(s))

\* str::split('\n'): always at least one piece
RECURSIVE SplitLF(_)
SplitLF(s) ==
    IF \A i \in 1..Len(s) : s[i] # LF THEN <<s>>
    ELSE LET i == CHOOSE k \in 1..Len(s) :
                      s[k] = LF /\ \A j \in 1..(k - 1) : s[j] # LF
         IN <<SubSeq(s, 1, i - 1)>> \o SplitLF(SubSeq(s, i + 1, Len(s)))

\* [String]::join("\n")
RECURSIVE JoinLF(_)
JoinLF(lines) ==
    IF lines = <<>> THEN <<>>
    ELSE IF Len(lines) = 1 THEN lines[1]
    ELSE lines[1] \o <<LF>> \o JoinLF(Tail(lines))

RECURSIVE Concat(_)
Concat(ss) == IF ss = <<>> THEN <<>> ELSE Head(ss) \o Concat(Tail(ss))

----------------------------------------------------------------------------
(* src/agents_md.rs *)

split_preserve_trailing_newline(contents) ==
    IF contents = <<>> THEN <<>> ELSE SplitLF(contents)

start_marker(name) == <<StartPrefix>> \o name \o <<MarkerSuffix>>

end_marker(name) == <<EndPrefix>> \o name \o <<MarkerSuffix>>

header_line(name) == <<HeaderPrefix>> \o name

\* Option<String>: <<>> is None (Some is never the empty name)
parse_start_marker(line) ==
    IF Len(line) >= 2 /\ line[1] = StartPrefix /\ line[Len(line)] = MarkerSuffix
    THEN Trim(SubSeq(line, 2, Len(line) - 1))
    ELSE <<>>

is_end_marker(line, name) == TrimEnd(line) = end_marker(name)

TextSeg(text_lines) ==
    [kind |-> "Text", name |-> <<>>, content_lines |-> text_lines]

SectionSeg(name, content_lines) ==
    [kind |-> "Section", name |-> name, content_lines |-> content_lines]

\* a from_content that drops the newlines at the end of the content
from_content_trimmed(name, content) ==
    SectionSeg(name, split_preserve_trailing_newline(
        IF content # <<>> /\ content[Len(content)] = LF
        THEN SubSeq(content, 1, Len(content) - 1) ELSE content))

from_content(name, content) ==
    SectionSeg(name, split_preserve_trailing_newline(content))

content_string(section) == JoinLF(section.content_lines)

empty == <<>>

ParseError == [ok |-> FALSE, segments |-> <<>>]

\* index of the first end marker for name at or after from, Len + 1 if none
FindEnd(lines, from, name) ==
    IF \E j \in from..Len(lines) : is_end_marker(lines[j], name)
    THEN CHOOSE j \in from..Len(lines) :
             /\ is_end_marker(lines[j], name)
             /\ \A k \in from..(j - 1) : ~is_end_marker(lines[k], name)
    ELSE Len(lines) + 1

FlushText(segments, text_lines) ==
    IF text_lines # <<>> THEN Append(segments, TextSeg(text_lines)) ELSE segments

RECURSIVE ParseLoop(_, _, _, _)
ParseLoop(lines, index, segments, text_lines) ==
    IF index > Len(lines)
    THEN [ok |-> TRUE, segments |-> FlushText(segments, text_lines)]
    ELSE LET line == lines[index]
             name == parse_start_marker(line)
         IN IF name # <<>>
            THEN IF index + 1 > Len(lines)
                 THEN ParseError
                 ELSE IF TrimEnd(lines[index + 1]) # header_line(name)
                 THEN ParseError
                 ELSE LET endIdx == FindEnd(lines, index + 2, name)
                      IN IF endIdx > Len(lines)
                         THEN ParseError
                         ELSE ParseLoop(lines, endIdx + 1,
                                  Append(FlushText(segments, text_lines),
                                         SectionSeg(name,
                                             SubSeq(lines, index + 2, endIdx - 1))),
                                  <<>>)
            ELSE ParseLoop(lines, index + 1, segments, Append(text_lines, line))

\* a parse that accepts a start marker with no end marker (the rest is content)
RECURSIVE ParseLoopNoEndCheck(_, _, _, _)
ParseLoopNoEndCheck(lines, index, segments, text_lines) ==
    IF index > Len(lines)
    THEN [ok |-> TRUE, segments |-> FlushText(segments, text_lines)]
    ELSE LET line == lines[index]
             name == parse_start_marker(line)
         IN IF name # <<>>
            THEN IF index + 1 > Len(lines)
                 THEN ParseError
                 ELSE IF TrimEnd(lines[index + 1]) # header_line(name)
                 THEN ParseError
                 ELSE LET endIdx == FindEnd(lines, index + 2, name)
                      IN ParseLoopNoEndCheck(lines, endIdx + 1,
                                  Append(FlushText(segments, text_lines),
                                         SectionSeg(name,
                                             SubSeq(lines, index + 2, endIdx - 1))),
                                  <<>>)
            ELSE ParseLoopNoEndCheck(lines, index + 1, segments,
                                     Append(text_lines, line))

parse_no_end_check(contents) ==
    ParseLoopNoEndCheck(split_preserve_trailing_newline(contents), 1, <<>>, <<>>)

\* AgentsDoc::parse: [ok, segments]
parse(contents) ==
    ParseLoop(split_preserve_trailing_newline(contents), 1, <<>>, <<>>)

IsSection(segment) == segment.kind = "Section"

section_names(segments) ==
    LET secs == SelectSeq(segments, IsSection)
    IN [i \in 1..Len(secs) |-> secs[i].name]

HasSection(segments, name) ==
    \E i \in 1..Len(segments) : IsSection(segments[i]) /\ segments[i].name = name

\* Option<&AgentSection>: <<>> or <<section>>
get_section(segments, name) ==
    IF HasSection(segments, name)
    THEN LET i == CHOOSE k \in 1..Len(segments) :
                      /\ IsSection(segments[k]) /\ segments[k].name = name
                      /\ \A j \in 1..(k - 1) :
                             ~(IsSection(segments[j]) /\ segments[j].name = name)
         IN <<segments[i]>>
    ELSE <<>>

InsertAt(seq, i, x) == SubSeq(seq, 1, i - 1) \o <<x>> \o SubSeq(seq, i, Len(seq))

\* an upsert that never looks for an existing section of the name
upsert_section_always_insert(segments, section) ==
    IF \E i \in 1..Len(segments) : IsSection(segments[i])
    THEN LET last_section == CHOOSE i \in 1..Len(segments) :
                                 /\ IsSection(segments[i])
                                 /\ \A j \in (i + 1)..Len(segments) :
                                        ~IsSection(segments[j])
         IN InsertAt(segments, last_section + 1, section)
    ELSE Append(segments, section)

\* an upsert that pushes a new section at the end of the segment list
upsert_section_push_new(segments, section) ==
    IF HasSection(segments, section.name)
    THEN LET i == CHOOSE k \in 1..Len(segments) :
                      /\ IsSection(segments[k]) /\ segments[k].name = section.name
                      /\ \A j \in 1..(k - 1) :
                             ~(IsSection(segments[j])
                               /\ segments[j].name = section.name)
         IN [segments EXCEPT ![i] = section]
    ELSE Append(segments, section)

upsert_section(segments, section) ==
    IF HasSection(segments, section.name)
    THEN LET i == CHOOSE k \in 1..Len(segments) :
                      /\ IsSection(segments[k]) /\ segments[k].name = section.name
                      /\ \A j \in 1..(k - 1) :
                             ~(IsSection(segments[j])
                               /\ segments[j].name = section.name)
         IN [segments EXCEPT ![i] = section]
    ELSE IF \E i \in 1..Len(segments) : IsSection(segments[i])
    THEN LET last_section == CHOOSE i \in 1..Len(segments) :
                                 /\ IsSection(segments[i])
                                 /\ \A j \in (i + 1)..Len(segments) :
                                        ~IsSection(segments[j])
         IN InsertAt(segments, last_section + 1, section)
    ELSE Append(segments, section)

\* a remove that deletes only the first section of the name
remove_section_first_only(segments, name) ==
    IF \E i \in 1..Len(segments) :
           segments[i].kind = "Section" /\ segments[i].name = name
    THEN LET i == CHOOSE k \in 1..Len(segments) :
                      /\ segments[k].kind = "Section" /\ segments[k].name = name
                      /\ \A j \in 1..(k - 1) :
                             ~(segments[j].kind = "Section"
                               /\ segments[j].name = name)
         IN [segments |-> SubSeq(segments, 1, i - 1)
                          \o SubSeq(segments, i + 1, Len(segments)),
             removed |-> TRUE]
    ELSE [segments |-> segments, removed |-> FALSE]

KeepUnlessNamed(segments, name) ==
    LET keep(segment) == ~(IsSection(segment) /\ segment.name = name)
    IN SelectSeq(segments, keep)

\* remove_section: [segments, removed]
remove_section(segments, name) ==
    LET kept == KeepUnlessNamed(segments, name)
    IN [segments |-> kept, removed |-> Len(kept) # Len(segments)]

SegmentLines(segment) ==
    IF IsSection(segment)
    THEN <<start_marker(segment.name), header_line(segment.name)>>
         \o segment.content_lines \o <<end_marker(segment.name)>>
    ELSE segment.content_lines

RECURSIVE RenderLines(_)
RenderLines(segments) ==
    IF segments = <<>> THEN <<>>
    ELSE SegmentLines(Head(segments)) \o RenderLines(Tail(segments))

render(segments) == JoinLF(RenderLines(segments))

----------------------------------------------------------------------------
(* src/sync.rs: conflict resolution.  TextDiff::from_lines and grouped_ops *)
(* belong to the similar crate; they are modelled as that crate computes   *)
(* them: lines keep their terminators, the diff is a shortest edit script, *)
(* adjacent operations of one tag are one operation, and grouped_ops(n)    *)
(* keeps n lines of context around each run of changes.                    *)

Context == 3

Max(a, b) == IF a >= b THEN a ELSE b

Min(a, b) == IF a <= b THEN a ELSE b

\* the lines of a text, each with its terminator (LF, CR LF or a lone CR)
RECURSIVE TokenizeLines(_)
TokenizeLines(s) ==
    IF s = <<>> THEN <<>>
    ELSE IF \A i \in 1..Len(s) : s[i] \notin {LF, CR} THEN <<s>>
    ELSE LET i == CHOOSE k \in 1..Len(s) :
                      s[k] \in {LF, CR} /\ \A j \in 1..(k - 1) : s[j] \notin {LF, CR}
             e == IF s[i] = CR /\ i < Len(s) /\ s[i + 1] = LF THEN i + 1 ELSE i
         IN <<SubSeq(s, 1, e)>> \o TokenizeLines(SubSeq(s, e + 1, Len(s)))

RECURSIVE LcsLen(_, _)
LcsLen(old, new) ==
    IF old = <<>> \/ new = <<>> THEN 0
    ELSE IF Head(old) = Head(new) THEN 1 + LcsLen(Tail(old), Tail(new))
    ELSE Max(LcsLen(Tail(old), new), LcsLen(old, Tail(new)))

Change(tag, value) == [tag |-> tag, value |-> value]

\* the changes of the diff, in order: Equal, Delete (old only), Insert (new only)
RECURSIVE DiffChanges(_, _)
DiffChanges(old, new) ==
    IF old = <<>> /\ new = <<>> THEN <<>>
    ELSE IF old = <<>>
    THEN <<Change("Insert", Head(new))>> \o DiffChanges(old, Tail(new))
    ELSE IF new = <<>>
    THEN <<Change("Delete", Head(old))>> \o DiffChanges(Tail(old), new)
    ELSE IF Head(old) = Head(new)
    THEN <<Change("Equal", Head(old))>> \o DiffChanges(Tail(old), Tail(new))
    ELSE IF LcsLen(Tail(old), new) >= LcsLen(old, Tail(new))
    THEN <<Change("Delete", Head(old))>> \o DiffChanges(Tail(old), new)
    ELSE <<Change("Insert", Head(new))>> \o DiffChanges(old, Tail(new))

\* diff.ops(): maximal runs of one tag, [tag, values]
RECURSIVE DiffOps(_)
DiffOps(changes) ==
    IF changes = <<>> THEN <<>>
    ELSE LET tag == changes[1].tag
             n == IF \E k \in 1..Len(changes) : changes[k].tag # tag
                  THEN (CHOOSE k \in 1..Len(changes) :
                            /\ changes[k].tag # tag
                            /\ \A j \in 1..(k - 1) : changes[j].tag = tag) - 1
                  ELSE Len(changes)
         IN <<[tag |-> tag,
               values |-> [i \in 1..n |-> changes[i].value]]>>
            \o DiffOps(SubSeq(changes, n + 1, Len(changes)))

KeepLast(op, n) ==
    [op EXCEPT !.values = SubSeq(op.values, Len(op.values) - Min(Len(op.values), n) + 1,
                                 Len(op.values))]

KeepFirst(op, n) ==
    [op EXCEPT !.values = SubSeq(op.values, 1, Min(Len(op.values), n))]

TrimFirstOp(ops_, n) ==
    IF ops_[1].tag = "Equal" THEN [ops_ EXCEPT ![1] = KeepLast(ops_[1], n)] ELSE ops_

TrimLastOp(ops_, n) ==
    IF ops_[Len(ops_)].tag = "Equal"
    THEN [ops_ EXCEPT ![Len(ops_)] = KeepFirst(ops_[Len(ops_)], n)]
    ELSE ops_

\* the loop of grouped_ops: rv and pending_group, op by op
RECURSIVE GroupLoop(_, _, _, _)
GroupLoop(ops_, n, rv, pending_group) ==
    IF ops_ = <<>>
    THEN IF pending_group = <<>>
            \/ (Len(pending_group) = 1 /\ pending_group[1].tag = "Equal")
         THEN rv
         ELSE Append(rv, pending_group)
    ELSE LET op == Head(ops_)
         IN IF op.tag = "Equal" /\ Len(op.values) > n * 2
            THEN GroupLoop(Tail(ops_), n,
                           Append(rv, Append(pending_group, KeepFirst(op, n))),
                           <<KeepLast(op, n)>>)
            ELSE GroupLoop(Tail(ops_), n, rv, Append(pending_group, op))

\* a grouping that keeps every line of a long run of equal lines
RECURSIVE GroupLoopKeepAll(_, _, _, _)
GroupLoopKeepAll(ops_, n, rv, pending_group) ==
    IF ops_ = <<>>
    THEN IF pending_group = <<>> THEN rv ELSE Append(rv, pending_group)
    ELSE GroupLoopKeepAll(Tail(ops_), n, rv, Append(pending_group, Head(ops_)))

\* diff.grouped_ops(n)
grouped_ops(ops_, n) ==
    IF ops_ = <<>> THEN <<>>
    ELSE GroupLoop(TrimLastOp(TrimFirstOp(ops_, n), n), n, <<>>, <<>>)

\* what one hunk contributes under a choice
RECURSIVE GroupOutput(_, _)
GroupOutput(group, choice) ==
    IF group = <<>> THEN <<>>
    ELSE LET op == Head(group)
             kept == \/ op.tag = "Equal"
                     \/ (op.tag = "Delete" /\ choice = "Skill")
                     \/ (op.tag = "Insert" /\ choice = "Agents")
         IN (IF kept THEN Concat(op.values) ELSE <<>>)
            \o GroupOutput(Tail(group), choice)

\* the loop over the hunks; answers[k] is what prompt_choice returns for hunk
\* k: "Skill", "Agents", or "Closed" when stdin is at end of file
RECURSIVE ResolveLoop(_, _, _, _)
ResolveLoop(groups, answers, k, acc) ==
    IF k > Len(groups) THEN [ok |-> TRUE, resolved |-> acc, prompts |-> Len(groups)]
    ELSE IF answers[k] = "Closed" THEN [ok |-> FALSE, resolved |-> <<>>, prompts |-> k]
    ELSE ResolveLoop(groups, answers, k + 1,
                     acc \o GroupOutput(groups[k], answers[k]))

DiffGroups(skill, agents) ==
    grouped_ops(DiffOps(DiffChanges(TokenizeLines(skill), TokenizeLines(agents))),
                Context)

\* resolve_conflicts_interactive: [ok, resolved, prompts]
resolve_conflicts_interactive(skill, agents, answers) ==
    IF TokenizeLines(skill) = <<>> /\ TokenizeLines(agents) = <<>>
    THEN [ok |-> TRUE, resolved |-> skill, prompts |-> 0]
    ELSE ResolveLoop(DiffGroups(skill, agents), answers, 1, <<>>)

\* the answers stdin may give for the hunks of one conflict
AnswerSeqs(skill, agents) ==
    [1..Len(DiffGroups(skill, agents)) -> {"Skill", "Agents", "Closed"}]

\* content.replace("\r\n", "\n")
RECURSIVE ReplaceCrLf(_)
ReplaceCrLf(s) ==
    IF s = <<>> THEN <<>>
    ELSE IF Len(s) >= 2 /\ s[1] = CR /\ s[2] = LF
    THEN <<LF>> \o ReplaceCrLf(SubSeq(s, 3, Len(s)))
    ELSE <<Head(s)>> \o ReplaceCrLf(Tail(s))

\* str::trim_end_matches('\n')
RECURSIVE TrimEndLF(_)
TrimEndLF(s) ==
    IF s # <<>> /\ s[Len(s)] = LF THEN TrimEndLF(SubSeq(s, 1, Len(s) - 1)) ELSE s

\* a normalization that leaves CR LF alone
normalize_content_keep_cr(content) == TrimEndLF(content)

normalize_content(content) == TrimEndLF(ReplaceCrLf(content))

----------------------------------------------------------------------------
(* src/skills_store.rs: the store maps a name to <<>> (no SKILL.md file) or *)
(* <<content>>                                                              *)

validate_name(name) ==
    name # <<>> /\ \A i \in 1..Len(name) : IsNameChar(name[i])

skill_exists(store, name) == name \in DOMAIN store /\ store[name] # <<>>

load_skill(store, name) == store[name][1]

save_skill(store, name, content) ==
    [n \in DOMAIN store \cup {name} |-> IF n = name THEN <<content>> ELSE store[n]]

\* a delete that leaves the SKILL.md file where it is
delete_skill_nothing(store, name) == store

delete_skill(store, name) ==
    [n \in DOMAIN store |-> IF n = name THEN <<>> ELSE store[n]]

list_skill_names(store) == {n \in DOMAIN store : store[n] # <<>>}

\* an iteration from the largest name to the smallest
RECURSIVE NamesLargestFirst(_)
NamesLargestFirst(S) ==
    IF S = {} THEN <<>>
    ELSE LET m == CHOOSE x \in S : \A y \in S \ {x} : StrLess(y, x)
         IN <<m>> \o NamesLargestFirst(S \ {m})

\* iteration order of a BTreeSet<String>
RECURSIVE SortedNames(_)
SortedNames(S) ==
    IF S = {} THEN <<>>
    ELSE LET m == CHOOSE x \in S : \A y \in S \ {x} : StrLess(x, y)
         IN <<m>> \o SortedNames(S \ {m})

SeqToSet(seq) == {seq[i] : i \in 1..Len(seq)}

----------------------------------------------------------------------------
(* Bounds and input pools *)

MaxChunks == 2        \* chunks an input document is made of
MaxDocOps == 2        \* upsert/remove calls made on one document

SeqsUpTo(S, n) == UNION {[1..k -> S] : k \in 0..n}

NameA == <<"a">>
NameB == <<"b">>

\* pieces of document text: every marker line alone, in canonical form and
\* with the extra whitespace the parser tolerates, and whole sections
DocChunks ==
    { <<start_marker(NameA)>>,
      <<<<StartPrefix, SPC, "a", SPC, MarkerSuffix>>>>,
      <<header_line(NameA)>>,
      <<header_line(NameA) \o <<SPC>>>>,
      <<end_marker(NameA)>>,
      <<end_marker(NameA) \o <<SPC>>>>,
      <<<<"x">>>>,
      <<<<>>>>,
      <<start_marker(NameA), header_line(NameA)>>,
      <<<<StartPrefix, SPC, "a", SPC, MarkerSuffix>>, header_line(NameA)>>,
      <<start_marker(NameA), header_line(NameA) \o <<SPC>>>>,
      <<start_marker(NameA), header_line(NameA), end_marker(NameA)>>,
      <<start_marker(NameA), header_line(NameA), <<"x">>, end_marker(NameA)>>,
      <<start_marker(NameB), header_line(NameB), <<"y">>, end_marker(NameB)>> }

DocTexts == {JoinLF(Concat(cs)) : cs \in SeqsUpTo(DocChunks, MaxChunks)}

UpsertInputs ==
    {SectionSeg(n, c) : n \in {NameA, NameB}, c \in {<<>>, <<<<"y">>>>}}

NoCall == [op |-> "none", section |-> SectionSeg(<<>>, <<>>),
           existed |-> FALSE, ret |-> FALSE]

----------------------------------------------------------------------------
(* SpecDoc: the document model alone.  A document is either AgentsDoc::empty *)
(* or the parse of an input text; upsert_section, remove_section and render *)
(* are then called on it.                                                   *)

InitOther ==
    /\ skills = [n \in {NameA, NameB} |-> <<>>]
    /\ original_agents = <<>>
    /\ all_names = <<>>
    /\ updated = FALSE
    /\ prompts = 0
    /\ fragWrites = {}
    /\ created = {}
    /\ conflicts = {}
    /\ docWritten = FALSE
    /\ second = FALSE
    /\ skill_content = <<>>
    /\ agents_content = <<>>
    /\ choices = <<>>
    /\ resolved = <<>>

InitDoc ==
    /\ agentsFile \in {<<t>> : t \in DocTexts}
    /\ pc = "doc"
    /\ cmd = "empty"
    /\ result = "ok"
    /\ agents_doc = empty
    /\ rendered = <<>>
    /\ ops = 0
    /\ lastCall = NoCall
    /\ InitOther

DocUnchanged ==
    UNCHANGED <<skills, original_agents, all_names, updated, prompts,
                fragWrites, created, conflicts, docWritten, second,
                skill_content, agents_content, choices, resolved>>

DocParse ==
    /\ pc = "doc" /\ cmd = "empty" /\ ops = 0 /\ lastCall.op = "none"
    /\ LET r == parse(agentsFile[1])
       IN /\ agents_doc' = r.segments
          /\ result' = IF r.ok THEN "ok" ELSE "err"
    /\ cmd' = "parse"
    /\ lastCall' = [NoCall EXCEPT !.op = "parse"]
    /\ UNCHANGED <<agentsFile, pc, rendered, ops>>
    /\ DocUnchanged

DocUpsert ==
    /\ pc = "doc" /\ result = "ok" /\ ops < MaxDocOps
    /\ \E section \in UpsertInputs :
          /\ agents_doc' = upsert_section(agents_doc, section)
          /\ lastCall' = [op |-> "upsert", section |-> section,
                          existed |-> HasSection(agents_doc, section.name),
                          ret |-> FALSE]
    /\ ops' = ops + 1
    /\ UNCHANGED <<agentsFile, pc, cmd, result, rendered>>
    /\ DocUnchanged

DocRemove ==
    /\ pc = "doc" /\ result = "ok" /\ ops < MaxDocOps
    /\ \E name \in {NameA, NameB} :
          LET r == remove_section(agents_doc, name)
          IN /\ agents_doc' = r.segments
             /\ lastCall' = [op |-> "remove",
                             section |-> SectionSeg(name, <<>>),
                             existed |-> HasSection(agents_doc, name),
                             ret |-> r.removed]
    /\ ops' = ops + 1
    /\ UNCHANGED <<agentsFile, pc, cmd, result, rendered>>
    /\ DocUnchanged

DocRender ==
    /\ pc = "doc" /\ result = "ok" /\ lastCall.op \notin {"none", "render"}
    /\ rendered' = <<render(agents_doc)>>
    /\ lastCall' = [lastCall EXCEPT !.op = "render"]
    /\ UNCHANGED <<agentsFile, pc, cmd, result, agents_doc, ops>>
    /\ DocUnchanged

NextDoc == DocParse \/ DocUpsert \/ DocRemove \/ DocRender

SpecDoc == InitDoc /\ [][NextDoc]_vars

----------------------------------------------------------------------------
(* src/sync.rs run_sync and src/main.rs Delete / DeleteGlobally *)

MaxSyncChunks == 2    \* chunks the document file is made of at the start
MaxOps == 2           \* commands run one after the other

NameInvalid == <<"a", SPC, "b">>

SyncChunks ==
    { <<<<"x">>>>,
      <<start_marker(NameA), header_line(NameA), <<"x">>, end_marker(NameA)>>,
      <<start_marker(NameA), header_line(NameA), <<"x">>, <<>>, end_marker(NameA)>>,
      <<<<StartPrefix, SPC, "a", SPC, MarkerSuffix>>, header_line(NameA),
        end_marker(NameA)>>,
      <<start_marker(NameB), header_line(NameB), <<"y">>, end_marker(NameB)>>,
      <<start_marker(NameInvalid), header_line(NameInvalid),
        end_marker(NameInvalid)>>,
      <<start_marker(NameA)>>,
      <<start_marker(NameA), header_line(NameA)>> }

SyncTexts == {JoinLF(Concat(cs)) : cs \in SeqsUpTo(SyncChunks, MaxSyncChunks)}

FragContents ==
    { <<"x">>, <<"x", CR, LF>>, end_marker(NameA) }

SkillNames == {NameA, NameB}

\* the write condition at the end of run_sync, with the file always rewritten
WriteAlways(upd, original, rend) == TRUE

\* updated || original_agents.as_deref() != Some(rendered.as_str())
WriteNeeded(upd, original, rend) == upd \/ original # <<rend>>

StepFailed(doc, store, upd, asked) ==
    [ok |-> FALSE, doc |-> doc, store |-> store, updated |-> upd,
     prompts |-> asked, wrote |-> {}, created |-> {}, conflicts |-> {}]

StepDone(doc, store, upd, asked, wrote, made, merged) ==
    [ok |-> TRUE, doc |-> doc, store |-> store, updated |-> upd,
     prompts |-> asked, wrote |-> wrote, created |-> made, conflicts |-> merged]

\* the answers stdin may give while name is processed
StepAnswers(name, doc, store) ==
    IF /\ validate_name(name)
       /\ skill_exists(store, name)
       /\ get_section(doc, name) # <<>>
       /\ normalize_content(load_skill(store, name))
              # normalize_content(content_string(get_section(doc, name)[1]))
    THEN AnswerSeqs(load_skill(store, name),
                    content_string(get_section(doc, name)[1]))
    ELSE {<<>>}

\* one iteration of the loop over all_names
SyncNameStep(name, doc, store, upd, answers) ==
    IF ~validate_name(name) THEN StepFailed(doc, store, upd, 0)
    ELSE LET exists == skill_exists(store, name)
             section == get_section(doc, name)
         IN IF ~exists /\ section # <<>>
            THEN StepDone(doc,
                          save_skill(store, name, content_string(section[1])),
                          upd, 0, {name}, {}, {})
            ELSE IF exists /\ section = <<>>
            THEN StepDone(upsert_section(doc,
                              from_content(name, load_skill(store, name))),
                          store, TRUE, 0, {}, {name}, {})
            ELSE IF exists /\ section # <<>>
            THEN LET skill == load_skill(store, name)
                     agents == content_string(section[1])
                 IN IF normalize_content(skill) # normalize_content(agents)
                    THEN LET r == resolve_conflicts_interactive(skill, agents,
                                                                answers)
                         IN IF ~r.ok
                            THEN StepFailed(doc, store, upd, r.prompts)
                            ELSE StepDone(
                                     upsert_section(doc,
                                         from_content(name, r.resolved)),
                                     save_skill(store, name, r.resolved),
                                     TRUE, r.prompts, {name}, {}, {name})
                    ELSE StepDone(doc, store, upd, 0, {}, {}, {})
            ELSE StepDone(doc, store, upd, 0, {}, {}, {})

Init ==
    /\ agentsFile \in {<<>>} \cup {<<t>> : t \in SyncTexts}
    /\ skills \in [SkillNames -> {<<>>} \cup {<<c>> : c \in FragContents}]
    /\ pc = "idle"
    /\ cmd = "none"
    /\ result = "none"
    /\ agents_doc = empty
    /\ rendered = <<>>
    /\ ops = 0
    /\ lastCall = NoCall
    /\ original_agents = <<>>
    /\ all_names = <<>>
    /\ updated = FALSE
    /\ prompts = 0
    /\ fragWrites = {}
    /\ created = {}
    /\ conflicts = {}
    /\ docWritten = FALSE
    /\ second = FALSE
    /\ skill_content = <<>>
    /\ agents_content = <<>>
    /\ choices = <<>>
    /\ resolved = <<>>

ResolveUnchanged == UNCHANGED <<skill_content, agents_content, choices, resolved>>

\* run_sync up to the loop: read_agents_doc and all_names; lastCall keeps the
\* delete-globally that succeeded right before this sync
SyncBegin ==
    /\ pc = "idle" /\ ops < MaxOps
    /\ cmd' = "sync"
    /\ ops' = ops + 1
    /\ second' = (cmd = "sync" /\ result = "ok")
    /\ prompts' = 0 /\ fragWrites' = {} /\ created' = {} /\ conflicts' = {}
    /\ docWritten' = FALSE /\ rendered' = <<>> /\ updated' = FALSE
    /\ lastCall' = IF cmd = "delete_globally" /\ result = "ok"
                   THEN lastCall ELSE NoCall
    /\ LET r == IF agentsFile # <<>> THEN parse(agentsFile[1])
                ELSE [ok |-> TRUE, segments |-> empty]
       IN IF r.ok
          THEN /\ agents_doc' = r.segments
               /\ original_agents' = agentsFile
               /\ all_names' = SortedNames(SeqToSet(section_names(r.segments))
                                           \cup list_skill_names(skills))
               /\ pc' = "sync_loop"
               /\ result' = "none"
          ELSE /\ agents_doc' = empty
               /\ original_agents' = <<>>
               /\ all_names' = <<>>
               /\ pc' = "idle"
               /\ result' = "err"
    /\ UNCHANGED <<agentsFile, skills>>
    /\ ResolveUnchanged

\* run_sync: the loop body for the next name
SyncName ==
    /\ pc = "sync_loop" /\ all_names # <<>>
    /\ \E answers \in StepAnswers(Head(all_names), agents_doc, skills) :
          LET r == SyncNameStep(Head(all_names), agents_doc, skills, updated,
                                answers)
          IN /\ agents_doc' = r.doc
             /\ skills' = r.store
             /\ updated' = r.updated
             /\ prompts' = prompts + r.prompts
             /\ fragWrites' = fragWrites \cup r.wrote
             /\ created' = created \cup r.created
             /\ conflicts' = conflicts \cup r.conflicts
             /\ all_names' = IF r.ok THEN Tail(all_names) ELSE <<>>
             /\ pc' = IF r.ok THEN "sync_loop" ELSE "idle"
             /\ result' = IF r.ok THEN "none" ELSE "err"
    /\ UNCHANGED <<agentsFile, cmd, original_agents, docWritten, second, ops,
                   lastCall, rendered>>
    /\ ResolveUnchanged

\* the outcomes of a file operation that fails while name is processed:
\* load_skill fails before anything is asked or written; save_skill fails
\* after the hunks were answered, and the fragment is as it was or, when
\* fs::write fails after creating the file, empty
IoFailures(name, doc, store, answers) ==
    LET exists == skill_exists(store, name)
        section == get_section(doc, name)
        r == SyncNameStep(name, doc, store, updated, answers)
        loads == IF exists
                 THEN {[store |-> store, prompts |-> 0]}
                 ELSE {}
        saves == IF r.ok /\ r.wrote # {}
                 THEN {[store |-> t, prompts |-> r.prompts] :
                           t \in {store, save_skill(store, name, <<>>)}}
                 ELSE {}
    IN IF validate_name(name) THEN loads \cup saves ELSE {}

\* run_sync: load_skill or save_skill returns an error for the next name
SyncIoError ==
    /\ pc = "sync_loop" /\ all_names # <<>>
    /\ \E answers \in StepAnswers(Head(all_names), agents_doc, skills) :
          \E f \in IoFailures(Head(all_names), agents_doc, skills, answers) :
              /\ skills' = f.store
              /\ prompts' = prompts + f.prompts
    /\ all_names' = <<>>
    /\ pc' = "idle"
    /\ result' = "io_err"
    /\ UNCHANGED <<agentsFile, cmd, agents_doc, original_agents, updated,
                   fragWrites, created, conflicts, docWritten, second, ops,
                   lastCall, rendered>>
    /\ ResolveUnchanged

\* run_sync after the loop: render and the conditional write
SyncEnd ==
    /\ pc = "sync_loop" /\ all_names = <<>>
    /\ rendered' = <<render(agents_doc)>>
    /\ IF WriteNeeded(updated, original_agents, render(agents_doc))
       THEN agentsFile' = <<render(agents_doc)>> /\ docWritten' = TRUE
       ELSE UNCHANGED <<agentsFile, docWritten>>
    /\ pc' = "idle"
    /\ result' = "ok"
    /\ UNCHANGED <<skills, cmd, agents_doc, original_agents, all_names, updated,
                   prompts, fragWrites, created, conflicts, second, ops,
                   lastCall>>
    /\ ResolveUnchanged

\* what Delete and DeleteGlobally do to the document file: [ok, file, wrote, removed]
DeleteFromDocument(file, name) ==
    IF ~validate_name(name) \/ file = <<>>
    THEN [ok |-> FALSE, file |-> file, wrote |-> FALSE, removed |-> FALSE]
    ELSE LET doc == parse(file[1])
         IN IF ~doc.ok
            THEN [ok |-> FALSE, file |-> file, wrote |-> FALSE, removed |-> FALSE]
            ELSE LET r == remove_section(doc.segments, name)
                 IN IF r.removed
                    THEN [ok |-> TRUE, file |-> <<render(r.segments)>>,
                          wrote |-> TRUE, removed |-> TRUE]
                    ELSE [ok |-> TRUE, file |-> file, wrote |-> FALSE,
                          removed |-> FALSE]

CommandStart(c, name) ==
    /\ pc = "idle" /\ ops < MaxOps
    /\ cmd' = c
    /\ ops' = ops + 1
    /\ second' = FALSE
    /\ prompts' = 0 /\ created' = {} /\ conflicts' = {}
    /\ rendered' = <<>> /\ updated' = FALSE
    /\ agents_doc' = empty /\ original_agents' = <<>> /\ all_names' = <<>>
    /\ pc' = "idle"
    /\ ResolveUnchanged

\* Command::Delete
Delete ==
    \E name \in SkillNames :
        LET r == DeleteFromDocument(agentsFile, name)
        IN /\ CommandStart("delete", name)
           /\ agentsFile' = r.file
           /\ docWritten' = r.wrote
           /\ result' = IF r.ok THEN "ok" ELSE "err"
           /\ lastCall' = [op |-> "delete", section |-> SectionSeg(name, <<>>),
                           existed |-> skill_exists(skills, name),
                           ret |-> r.removed]
           /\ fragWrites' = {}
           /\ UNCHANGED skills

\* Command::DeleteGlobally
DeleteGlobally ==
    \E name \in SkillNames :
        LET r == DeleteFromDocument(agentsFile, name)
        IN /\ CommandStart("delete_globally", name)
           /\ agentsFile' = r.file
           /\ docWritten' = r.wrote
           /\ result' = IF r.ok THEN "ok" ELSE "err"
           /\ lastCall' = [op |-> "delete_globally",
                           section |-> SectionSeg(name, <<>>),
                           existed |-> skill_exists(skills, name),
                           ret |-> r.removed]
           /\ skills' = IF r.ok THEN delete_skill(skills, name) ELSE skills
           /\ fragWrites' = IF r.ok /\ skill_exists(skills, name)
                            THEN {name} ELSE {}

Next ==
    SyncBegin \/ SyncName \/ SyncIoError \/ SyncEnd \/ Delete \/ DeleteGlobally

Spec == Init /\ [][Next]_vars

----------------------------------------------------------------------------
(* Claims about run_sync and the delete commands (Spec) *)

SyncCompleted == cmd = "sync" /\ pc = "idle" /\ result = "ok"

\* the step is one iteration of run_sync's loop in which no file operation
\* failed
IsSyncNameStep == pc = "sync_loop" /\ all_names # <<>> /\ result' # "io_err"

\* the step starts a command
IsCommandStart == pc = "idle" /\ ops' = ops + 1

\* C2: a second run_sync right after a successful one, with no change in
\* between, shows no conflict hunk, writes no fragment and does not write
\* the document file.
SecondSyncIsNoOp ==
    (cmd = "sync" /\ second) =>
        (prompts = 0 /\ fragWrites = {} /\ ~docWritten)

\* the lines of a content, each without its LF or CR LF terminator, and
\* without the empty lines at the end
RECURSIVE LogicalLines(_)
LogicalLines(s) ==
    IF \A i \in 1..Len(s) : s[i] # LF THEN <<s>>
    ELSE LET i == CHOOSE k \in 1..Len(s) :
                      s[k] = LF /\ \A j \in 1..(k - 1) : s[j] # LF
             piece == IF i > 1 /\ s[i - 1] = CR THEN SubSeq(s, 1, i - 2)
                      ELSE SubSeq(s, 1, i - 1)
         IN <<piece>> \o LogicalLines(SubSeq(s, i + 1, Len(s)))

RECURSIVE DropTrailingEmpty(_)
DropTrailingEmpty(lines) ==
    IF lines # <<>> /\ lines[Len(lines)] = <<>>
    THEN DropTrailingEmpty(SubSeq(lines, 1, Len(lines) - 1))
    ELSE lines

\* two contents differ at most in CR LF versus LF and in trailing newlines
EolEquivalent(s, t) ==
    DropTrailingEmpty(LogicalLines(s)) = DropTrailingEmpty(LogicalLines(t))

\* C4: when a name has a fragment and a section whose contents differ only in
\* CR LF versus LF line endings or in the number of trailing newlines,
\* run_sync shows no hunk and changes neither the fragment nor the section.
NormalizationInsensitiveStep ==
    IsSyncNameStep =>
        LET name == Head(all_names)
        IN (/\ validate_name(name)
            /\ skill_exists(skills, name)
            /\ get_section(agents_doc, name) # <<>>
            /\ EolEquivalent(load_skill(skills, name),
                             content_string(get_section(agents_doc, name)[1])))
           => (/\ prompts' = prompts
               /\ skills' = skills
               /\ agents_doc' = agents_doc
               /\ updated' = updated
               /\ result' # "err")

\* C4: every step of run_sync treats contents that differ only in line
\* endings or trailing newlines as matching
NormalizationInsensitive == [][NormalizationInsensitiveStep]_vars

\* C4 witness: a sync completed over a fragment and a section that differ in
\* line endings or trailing newlines only, and neither was touched
SyncedOverEolDifference ==
    /\ SyncCompleted /\ prompts = 0
    /\ \E n \in SkillNames :
          /\ skill_exists(skills, n) /\ get_section(agents_doc, n) # <<>>
          /\ load_skill(skills, n) # content_string(get_section(agents_doc, n)[1])
          /\ EolEquivalent(load_skill(skills, n),
                           content_string(get_section(agents_doc, n)[1]))
          /\ n \notin fragWrites /\ n \notin created

\* C8: at the end of a successful run_sync the document file is written if the
\* rendered text differs from the original text or any fragment write
\* occurred in this sync (one from a section-only name included), and is not
\* written otherwise.
DocWrittenIffChangedOrFragmentWrite ==
    SyncCompleted =>
        (docWritten <=> (original_agents # rendered \/ fragWrites # {}))

\* C8 as amended: the document file is written if the rendered text differs
\* from the original text (or there was no file), or a section was created
\* from a fragment-only name, or a diverged name was resolved; a fragment
\* created from a section-only name does not cause the write.
DocWrittenIffChangedOrUpdated ==
    SyncCompleted =>
        (docWritten <=>
            (original_agents # rendered \/ created # {} \/ conflicts # {}))

\* C8 witness: a fragment was created from a section and the file was not written
FragmentCreatedDocNotWritten ==
    SyncCompleted /\ fragWrites # {} /\ ~docWritten

\* C9: per name, a missing fragment is created verbatim from the section and
\* a missing section verbatim from the fragment, both without a prompt; a
\* diverged name gets one resolved content on both sides; when run_sync has
\* processed every name, each name of the union has a fragment and a section
\* whose contents are equal after normalization.
ConvergenceStep ==
    /\ IsSyncNameStep =>
        LET name == Head(all_names)
            exists == skill_exists(skills, name)
            section == get_section(agents_doc, name)
        IN validate_name(name) =>
            /\ (~exists /\ section # <<>>) =>
                  /\ skill_exists(skills', name)
                  /\ load_skill(skills', name) = content_string(section[1])
                  /\ agents_doc' = agents_doc
                  /\ prompts' = prompts
                  /\ result' # "err"
            /\ (exists /\ section = <<>>) =>
                  /\ get_section(agents_doc', name) # <<>>
                  /\ content_string(get_section(agents_doc', name)[1])
                         = load_skill(skills, name)
                  /\ skills' = skills
                  /\ prompts' = prompts
                  /\ result' # "err"
            /\ (exists /\ section # <<>> /\ result' # "err") =>
                  /\ skill_exists(skills', name)
                  /\ get_section(agents_doc', name) # <<>>
                  /\ normalize_content(load_skill(skills', name))
                         = normalize_content(
                               content_string(get_section(agents_doc', name)[1]))
                  /\ (skills' # skills \/ agents_doc' # agents_doc) =>
                         load_skill(skills', name)
                             = content_string(get_section(agents_doc', name)[1])
    /\ (pc = "sync_loop" /\ all_names = <<>> /\ pc' = "idle") =>
        \A n \in SeqToSet(section_names(agents_doc')) \cup list_skill_names(skills') :
            /\ skill_exists(skills', n)
            /\ get_section(agents_doc', n) # <<>>
            /\ normalize_content(load_skill(skills', n))
                   = normalize_content(
                         content_string(get_section(agents_doc', n)[1]))

MalformedText(text) ==
    LET lines == split_preserve_trailing_newline(text)
    IN \E i \in 1..Len(lines) :
          /\ parse_start_marker(lines[i]) # <<>>
          /\ \A j \in 1..(i - 1) : parse_start_marker(lines[j]) = <<>>
          /\ \/ i = Len(lines)
             \/ TrimEnd(lines[i + 1]) # header_line(parse_start_marker(lines[i]))
             \/ \A j \in (i + 2)..Len(lines) :
                    TrimEnd(lines[j]) # end_marker(parse_start_marker(lines[i]))

\* C10: on a malformed document text parse fails, and sync, delete and
\* delete-globally then write nothing: no fragment is created, changed or
\* deleted and the document file is not written.
FailFastStep ==
    IsCommandStart =>
        /\ (agentsFile # <<>> /\ MalformedText(agentsFile[1])) =>
               (result' = "err" /\ pc' = "idle")
        /\ result' = "err" => (agentsFile' = agentsFile /\ skills' = skills)

\* C10: every command started on a malformed document fails and writes nothing
FailFast == [][FailFastStep]_vars

\* C10 witness: delete-globally of a stored fragment failed on a malformed document
DeleteGloballyFailedOnMalformed ==
    /\ cmd = "delete_globally" /\ result = "err"
    /\ agentsFile # <<>> /\ MalformedText(agentsFile[1])
    /\ lastCall.existed /\ skill_exists(skills, lastCall.section.name)

Ascending(names) ==
    \A i \in 1..(Len(names) - 1) : StrLess(names[i], names[i + 1])

\* C11: run_sync processes the names in ascending order; one iteration writes
\* no fragment but the one of its name and never the document file, which is
\* still as it was when the sync started; an iteration that fails (invalid
\* name, load or save error, input closed) ends the sync, so no later name
\* is processed and the fragments written for earlier names stay, and when
\* the name is invalid or the input closed no fragment is written for it.
AbortWithoutRollbackStep ==
    /\ (IsCommandStart /\ cmd' = "sync") => Ascending(all_names')
    /\ (pc = "sync_loop" /\ all_names # <<>>) =>
        LET name == Head(all_names)
        IN /\ Ascending(all_names)
           /\ agentsFile' = agentsFile
           /\ agentsFile = original_agents
           /\ ~docWritten'
           /\ DOMAIN skills' = DOMAIN skills
           /\ \A n \in DOMAIN skills : n # name => skills'[n] = skills[n]
           /\ result' \in {"err", "io_err"} =>
                  /\ pc' = "idle" /\ all_names' = <<>>
                  /\ fragWrites' = fragWrites
           /\ result' = "err" => skills' = skills

\* C11: every iteration of run_sync, failing or not, keeps what was written
\* before it and leaves the document file alone
AbortWithoutRollback == [][AbortWithoutRollbackStep]_vars

\* C11 witness: the input closed on a conflict after a fragment had been
\* written for an earlier name, and the fragment is still in the store
AbortedAfterFragmentWrite ==
    /\ cmd = "sync" /\ pc = "idle" /\ result = "err"
    /\ prompts > 0
    /\ fragWrites # {}
    /\ \A n \in fragWrites : skill_exists(skills, n)
    /\ agentsFile = original_agents

\* C13: a command started with no document file reads an empty document and
\* does not fail for want of the file; delete-globally then still deletes
\* the fragment of its name.
AbsentDocumentIsEmptyStep ==
    (IsCommandStart /\ agentsFile = <<>>) =>
        /\ result' # "err"
        /\ cmd' = "delete_globally" =>
               ~skill_exists(skills', lastCall'.section.name)

\* C13: every command started with no document file goes on as on an empty
\* document
AbsentDocumentIsEmpty == [][AbsentDocumentIsEmptyStep]_vars

----------------------------------------------------------------------------
(* Claims about the document model (SpecDoc) *)

NoDuplicates(seq) ==
    \A i \in 1..Len(seq) : \A j \in 1..Len(seq) : seq[i] = seq[j] => i = j

IsText(segment) == segment.kind = "Text"

\* C1: for every text on which parse succeeds, also one whose start marker
\* name, header line or end marker line carries extra whitespace,
\* render(parse(text)) equals text exactly.
RoundTrip ==
    (pc = "doc" /\ cmd = "parse" /\ ops = 0 /\ lastCall.op = "render")
        => rendered = agentsFile

\* C5: starting from the empty document, after any sequence of upsert_section
\* calls section_names() contains no duplicate.
UpsertNameUniqueness ==
    (pc = "doc" /\ cmd = "empty") => NoDuplicates(section_names(agents_doc))

\* C5 witness: an upsert of a name that was already present, from empty
UpsertRepeatedName ==
    /\ pc = "doc" /\ cmd = "empty"
    /\ lastCall.op = "upsert" /\ lastCall.existed
    /\ Len(agents_doc) >= 1

\* C6: every document reachable by parse followed by upsert_section and
\* remove_section calls has pairwise distinct section names.
NoTwoSectionsShareName ==
    pc = "doc" => NoDuplicates(section_names(agents_doc))

\* C7: upsert_section of an existing name replaces that section at the same
\* segment index and changes no other segment; upsert_section of a new name
\* inserts the section right after the last section segment, or at the end
\* of the list when there is none; no text span changes.
UpsertPositionStep ==
    (pc = "doc" /\ lastCall'.op = "upsert" /\ ops' = ops + 1) =>
        LET section == lastCall'.section
            old == agents_doc
            new == agents_doc'
        IN /\ SelectSeq(new, IsText) = SelectSeq(old, IsText)
           /\ IF \E i \in 1..Len(old) :
                     IsSection(old[i]) /\ old[i].name = section.name
              THEN /\ Len(new) = Len(old)
                   /\ \E i \in 1..Len(old) :
                         /\ IsSection(old[i]) /\ old[i].name = section.name
                         /\ new[i] = section
                         /\ \A j \in 1..Len(old) : j # i => new[j] = old[j]
              ELSE /\ Len(new) = Len(old) + 1
                   /\ \E p \in 1..Len(new) :
                         /\ new[p] = section
                         /\ \A j \in 1..(p - 1) : new[j] = old[j]
                         /\ \A j \in p..Len(old) : new[j + 1] = old[j]
                         /\ \A j \in p..Len(old) : IsText(old[j])
                         /\ (p = 1 \/ IsSection(old[p - 1])
                             \/ (p = Len(new)
                                 /\ \A j \in 1..Len(old) : IsText(old[j])))

RemoveFrameStep ==
    (pc = "doc" /\ lastCall'.op = "remove" /\ ops' = ops + 1) =>
        LET name == lastCall'.section.name
            old == agents_doc
            new == agents_doc'
            named(segment) == segment.kind = "Section" /\ segment.name = name
            other(segment) == ~named(segment)
        IN /\ lastCall'.ret <=> (\E i \in 1..Len(old) : named(old[i]))
           /\ \A i \in 1..Len(new) : ~named(new[i])
           /\ new = SelectSeq(old, other)
           /\ SelectSeq(new, IsText) = SelectSeq(old, IsText)
           /\ ~lastCall'.ret => new = old

\* C12: every remove_section step of the document model keeps the frame
RemoveFrame == [][RemoveFrameStep]_vars

\* C12 witness: a section was removed from a parsed document and a text span
\* is still there
RemovedBesideText ==
    /\ pc = "doc" /\ cmd = "parse"
    /\ lastCall.op = "remove" /\ lastCall.ret
    /\ \E i \in 1..Len(agents_doc) : IsText(agents_doc[i])

----------------------------------------------------------------------------
(* SpecResolve: resolve_conflicts_interactive alone, on two contents that   *)
(* share a run of equal lines between differing edges.                      *)

MaxEdge == 1          \* lines before and after the shared run
MaxEqualRun == 7      \* length of the shared run of equal lines

LineA == <<"a", LF>>
LineB == <<"b", LF>>

Rep(line, k) == [i \in 1..k |-> line]

ResolveContents(k) ==
    {Concat(p \o Rep(LineA, k) \o q) :
        p \in SeqsUpTo({LineA, LineB}, MaxEdge),
        q \in SeqsUpTo({LineA, LineB, <<"b">>}, MaxEdge)}

InitResolve ==
    /\ \E k \in 0..MaxEqualRun :
          /\ skill_content \in ResolveContents(k)
          /\ agents_content \in ResolveContents(k)
    /\ skill_content # agents_content
    /\ pc = "resolve"
    /\ cmd = "resolve"
    /\ result = "none"
    /\ choices = <<>>
    /\ resolved = <<>>
    /\ prompts = 0
    /\ agentsFile = <<>>
    /\ agents_doc = empty
    /\ rendered = <<>>
    /\ ops = 0
    /\ lastCall = NoCall
    /\ skills = [n \in {NameA, NameB} |-> <<>>]
    /\ original_agents = <<>>
    /\ all_names = <<>>
    /\ updated = FALSE
    /\ fragWrites = {}
    /\ created = {}
    /\ conflicts = {}
    /\ docWritten = FALSE
    /\ second = FALSE

Resolve ==
    /\ pc = "resolve"
    /\ \E answers \in AnswerSeqs(skill_content, agents_content) :
          LET r == resolve_conflicts_interactive(skill_content, agents_content,
                                                 answers)
          IN /\ choices' = SubSeq(answers, 1, r.prompts)
             /\ resolved' = IF r.ok THEN <<r.resolved>> ELSE <<>>
             /\ result' = IF r.ok THEN "ok" ELSE "err"
             /\ prompts' = r.prompts
    /\ pc' = "resolved"
    /\ UNCHANGED <<agentsFile, skills, cmd, agents_doc, original_agents,
                   all_names, updated, fragWrites, created, conflicts,
                   docWritten, second, ops, lastCall, skill_content,
                   agents_content, rendered>>

NextResolve == Resolve

SpecResolve == InitResolve /\ [][NextResolve]_vars

----------------------------------------------------------------------------
(* Claims about conflict resolution (SpecResolve) *)

WholeDiff == DiffChanges(TokenizeLines(skill_content), TokenizeLines(agents_content))

\* change j opens a run of more than 2 * Context equal lines that follows a
\* change: the hunks of the diff are what such runs separate
SplitsHunks(changes, j) ==
    /\ changes[j].tag = "Equal"
    /\ j > 1 /\ changes[j - 1].tag # "Equal"
    /\ j + 2 * Context <= Len(changes)
    /\ \A k \in j..(j + 2 * Context) : changes[k].tag = "Equal"

HunkOf(changes, i) ==
    1 + Cardinality({j \in 1..i : SplitsHunks(changes, j)})

RECURSIVE ExpectedFrom(_, _, _)
ExpectedFrom(changes, answers, i) ==
    IF i > Len(changes) THEN <<>>
    ELSE LET c == changes[i]
             kept == \/ c.tag = "Equal"
                     \/ (c.tag = "Delete" /\ answers[HunkOf(changes, i)] = "Skill")
                     \/ (c.tag = "Insert" /\ answers[HunkOf(changes, i)] = "Agents")
         IN (IF kept THEN c.value ELSE <<>>) \o ExpectedFrom(changes, answers, i + 1)

\* C3: the resolved content is every Equal line of the whole diff once, each
\* Delete line when its hunk's choice is Left (skill) and each Insert line
\* when its hunk's choice is Right (agents); all Left gives left, all Right
\* gives right, also with unchanged lines more than 3 lines from any change.
ResolutionKeepsEveryLine ==
    (pc = "resolved" /\ result = "ok") =>
        /\ resolved[1] = ExpectedFrom(WholeDiff, choices, 1)
        /\ (\A k \in 1..Len(choices) : choices[k] = "Skill")
               => resolved[1] = skill_content
        /\ (\A k \in 1..Len(choices) : choices[k] = "Agents")
               => resolved[1] = agents_content

====
